---- MODULE Spec2Model ----
(***************************************************************************)
(* Model of the print-dispatch core of src/main.js: the printer registry   *)
(* (printers, settings.selectedPrinter), refreshPrinters, setSelectedPrinter,*)
(* downloadPdf, ensurePrinterAvailable and the HTTP handlers of            *)
(* createServer.  The process is single-threaded: code between two awaits  *)
(* of an I/O promise runs atomically, so each action is one such stretch.  *)
(* The suspension points are the awaits of getPrintersAsync, fetch,        *)
(* arrayBuffer, mkdtemp, writeFile, print and rm.                          *)
(***************************************************************************)
EXTENDS Integers, Sequences, FiniteSets, TLC

\* ------------------------------------------------------------------ bounds

\* Number of request handlers / tray flows that may be in flight at once.
MaxInFlight == 2
\* Size of the name space mkdtemp draws directory names from.
MaxDirs == 2

Handlers == 1..MaxInFlight
DirNames == 1..MaxDirs

\* ------------------------------------------------------- JavaScript values

\* A JSON body field: absent, a string or a number.
Undef == [t |-> "undef", s |-> "", n |-> 0]
Str(x) == [t |-> "str", s |-> x, n |-> 0]
Num(k) == [t |-> "num", s |-> "", n |-> k]

\* JavaScript truthiness of a body field.
Truthy(v) == \/ v.t = "str" /\ v.s # ""
             \/ v.t = "num" /\ v.n # 0

IsString(v) == v.t = "str"

IsSpace(c) == c = " "

RECURSIVE TrimStart(_)
TrimStart(s) ==
  IF Len(s) > 0 /\ IsSpace(SubSeq(s, 1, 1))
  THEN TrimStart(SubSeq(s, 2, Len(s)))
  ELSE s

RECURSIVE TrimEnd(_)
TrimEnd(s) ==
  IF Len(s) > 0 /\ IsSpace(SubSeq(s, Len(s), Len(s)))
  THEN TrimEnd(SubSeq(s, 1, Len(s) - 1))
  ELSE s

\* String.prototype.trim
Trim(s) == TrimEnd(TrimStart(s))

\* One character folded to lower case (the i flag of the URL test).
LowerChar(c) ==
  CASE c = "H" -> "h"
    [] c = "T" -> "t"
    [] c = "P" -> "p"
    [] c = "S" -> "s"
    [] c = "F" -> "f"
    [] OTHER -> c

RECURSIVE Lower(_)
Lower(s) ==
  IF Len(s) = 0 THEN ""
  ELSE LowerChar(SubSeq(s, 1, 1)) \o Lower(SubSeq(s, 2, Len(s)))

StartsWith(s, p) == Len(s) >= Len(p) /\ SubSeq(s, 1, Len(p)) = p

RECURSIVE Contains(_, _)
Contains(s, p) ==
  IF Len(s) < Len(p) THEN FALSE
  ELSE StartsWith(s, p) \/ Contains(SubSeq(s, 2, Len(s)), p)

\* Mutant: any scheme passes the test.
IsHttpUrl_AnyScheme(s) == Contains(s, "://")

\* /^https?:\/\//i.test(s)
IsHttpUrl(s) == StartsWith(Lower(s), "http://") \/ StartsWith(Lower(s), "https://")

DigitVal(c) ==
  CASE c = "0" -> 0 [] c = "1" -> 1 [] c = "2" -> 2 [] c = "3" -> 3
    [] c = "4" -> 4 [] c = "5" -> 5 [] c = "6" -> 6 [] c = "7" -> 7
    [] c = "8" -> 8 [] c = "9" -> 9 [] OTHER -> -1

\* Value of the longest prefix of decimal digits of s, continuing from acc.
RECURSIVE DigitsPrefix(_, _)
DigitsPrefix(s, acc) ==
  IF Len(s) > 0 /\ DigitVal(SubSeq(s, 1, 1)) >= 0
  THEN DigitsPrefix(SubSeq(s, 2, Len(s)), acc * 10 + DigitVal(SubSeq(s, 1, 1)))
  ELSE acc

NaN == [nan |-> TRUE, val |-> 0]
IntVal(k) == [nan |-> FALSE, val |-> k]

\* Number.parseInt(text, 10) of a string: leading white space is skipped, an
\* optional sign is read, then the longest prefix of digits; NaN without a digit.
ParseIntStr(text) ==
  LET s == TrimStart(text)
      neg == Len(s) > 0 /\ SubSeq(s, 1, 1) = "-"
      signed == Len(s) > 0 /\ SubSeq(s, 1, 1) \in {"-", "+"}
      d == IF signed THEN SubSeq(s, 2, Len(s)) ELSE s
  IN IF Len(d) = 0 \/ DigitVal(SubSeq(d, 1, 1)) < 0 THEN NaN
     ELSE IntVal(IF neg THEN 0 - DigitsPrefix(d, 0) ELSE DigitsPrefix(d, 0))

\* Number.parseInt(v, 10) of a body field (a number is an integer here, whose
\* decimal text parses back to itself; undefined reads "undefined").
ParseInt(v) ==
  CASE v.t = "num" -> IntVal(v.n)
    [] v.t = "str" -> ParseIntStr(v.s)
    [] OTHER -> NaN

\* ---------------------------------------------------------------- printers

PrinterNames == <<"p1", "p2">>

\* displayName of an installed printer ("" when the OS reports none).
DisplayNameOf(name) == IF name = "p1" THEN "Front Desk" ELSE ""

Printer(name, def) == [name |-> name, displayName |-> DisplayNameOf(name), isDefault |-> def]

RECURSIVE SubLists(_)
\* The sub-lists of a list, order kept.
SubLists(l) ==
  IF Len(l) = 0 THEN {<<>>}
  ELSE LET rest == SubLists(Tail(l))
       IN rest \cup {<<Head(l)>> \o r : r \in rest}

\* What getPrintersAsync may resolve to: the installed printers in the OS's
\* order, at most one of them flagged isDefault.
OSLists ==
  UNION {
    {[i \in 1..Len(ns) |-> Printer(ns[i], i = d)] : d \in 0..Len(ns)}
    : ns \in SubLists(PrinterNames)}

\* printers.some((printer) => printer.name === n)
HasPrinter(prs, n) == \E i \in 1..Len(prs) : prs[i].name = n

\* Index of the first entry satisfying P, 0 when none (Array.prototype.find).
FindIndex(prs, P(_)) ==
  IF \E i \in 1..Len(prs) : P(prs[i])
  THEN CHOOSE i \in 1..Len(prs) : P(prs[i]) /\ \A j \in 1..(i - 1) : ~P(prs[j])
  ELSE 0

getPrinterDisplayName(prs, printerName) ==
  IF printerName = "" THEN "Not selected"
  ELSE LET Match(e) == e.name = printerName \/ e.displayName = printerName
           i == FindIndex(prs, Match)
       IN IF i = 0 THEN printerName
          ELSE IF prs[i].displayName # "" THEN prs[i].displayName ELSE prs[i].name

\* ------------------------------------------------------ registry operations

\* settings.selectedPrinter is null or a string; "" stands for null (the code
\* only ever tests it for truthiness or compares it with a non-empty name).
NoPrinter == ""

EvPersist(value) == [fn |-> "persistSettings", value |-> value]
EvTray == [fn |-> "updateTrayMenu"]
EvNotify(body) == [fn |-> "notify", body |-> body]

\* Mutant: the name already selected is selected anew.
setSelectedPrinter_NoGuard(prs, sel, printerName, persist, silent) ==
  IF printerName = ""
  THEN [sel |-> sel,
        ev |-> [fn |-> "setSelectedPrinter", name |-> printerName,
                persist |-> persist, silent |-> silent,
                before |-> sel, after |-> sel, effects |-> <<>>]]
  ELSE [sel |-> printerName,
        ev |-> [fn |-> "setSelectedPrinter", name |-> printerName,
                persist |-> persist, silent |-> silent,
                before |-> sel, after |-> printerName,
                effects |->
                  (IF persist THEN <<EvPersist(printerName)>> ELSE <<>>)
                  \o <<EvTray>>
                  \o (IF silent THEN <<>>
                      ELSE <<EvNotify("Selected printer: "
                                      \o getPrinterDisplayName(prs, printerName))>>)]]

\* setSelectedPrinter(printerName, persist, silent) run with selection sel and
\* list prs: the new selection and the call's record with the effects it had.
setSelectedPrinter(prs, sel, printerName, persist, silent) ==
  IF printerName = "" \/ sel = printerName
  THEN [sel |-> sel,
        ev |-> [fn |-> "setSelectedPrinter", name |-> printerName,
                persist |-> persist, silent |-> silent,
                before |-> sel, after |-> sel, effects |-> <<>>]]
  ELSE [sel |-> printerName,
        ev |-> [fn |-> "setSelectedPrinter", name |-> printerName,
                persist |-> persist, silent |-> silent,
                before |-> sel, after |-> printerName,
                effects |->
                  (IF persist THEN <<EvPersist(printerName)>> ELSE <<>>)
                  \o <<EvTray>>
                  \o (IF silent THEN <<>>
                      ELSE <<EvNotify("Selected printer: "
                                      \o getPrinterDisplayName(prs, printerName))>>)]]

\* The outcomes of hiddenWindow.webContents.getPrintersAsync().
EnumOutcomes == {[ok |-> TRUE, list |-> l] : l \in OSLists} \cup {[ok |-> FALSE, list |-> <<>>]}

\* Mutant: the new list is merged into the old one (entries the enumeration
\* no longer reports are kept in front).
Replace_Merge(prs, list) ==
  SelectSeq(prs, LAMBDA e : \A i \in 1..Len(list) : list[i].name # e.name) \o list

\* printers = await getPrintersAsync() (line 168): the list is replaced whole.
Replace(prs, list) == list

\* Mutant: the isDefault flag is ignored.
Preferred_First(prs) == prs[1]

\* The printer refreshPrinters auto-selects from a non-empty list.
Preferred(prs) ==
  LET IsDef(e) == e.isDefault
      i == FindIndex(prs, IsDef)
  IN IF i = 0 THEN prs[1] ELSE prs[i]

\* Mutant: the preferred printer is selected whether or not one is selected.
refreshPrinters_AlwaysAuto(prs, sel, o) ==
  LET newPrs == IF o.ok THEN o.list ELSE prs
      auto == o.ok /\ Len(newPrs) > 0
      set == setSelectedPrinter(newPrs, sel, Preferred(newPrs).name, TRUE, TRUE)
      newSel == IF auto THEN set.sel ELSE sel
  IN [printers |-> newPrs,
      sel |-> newSel,
      ev |-> [fn |-> "refreshPrinters", ok |-> o.ok, list |-> o.list,
              selBefore |-> sel, selAfter |-> newSel, printersAfter |-> newPrs,
              effects |-> (IF auto THEN <<set.ev>> ELSE <<>>)
                          \o <<EvTray, EvNotify("Refreshed printers")>>]]

\* Mutant: a failed enumeration empties the list.
refreshPrinters_ClearOnFail(prs, sel, o) ==
  LET newPrs == o.list
      auto == o.ok /\ sel = NoPrinter /\ Len(newPrs) > 0
      set == setSelectedPrinter(newPrs, sel, Preferred(newPrs).name, TRUE, TRUE)
      newSel == IF auto THEN set.sel ELSE sel
  IN [printers |-> newPrs,
      sel |-> newSel,
      ev |-> [fn |-> "refreshPrinters", ok |-> o.ok, list |-> o.list,
              selBefore |-> sel, selAfter |-> newSel, printersAfter |-> newPrs,
              effects |-> (IF auto THEN <<set.ev>> ELSE <<>>)
                          \o <<EvTray, EvNotify("Refreshed printers")>>]]

\* The part of refreshPrinters after the await of getPrintersAsync, run with
\* list prs and selection sel on enumeration outcome o.
refreshPrinters(prs, sel, o) ==
  LET newPrs == IF o.ok THEN Replace(prs, o.list) ELSE prs
      auto == o.ok /\ sel = NoPrinter /\ Len(newPrs) > 0
      set == setSelectedPrinter(newPrs, sel, Preferred(newPrs).name, TRUE, TRUE)
      newSel == IF auto THEN set.sel ELSE sel
  IN [printers |-> newPrs,
      sel |-> newSel,
      ev |-> [fn |-> "refreshPrinters", ok |-> o.ok, list |-> o.list,
              selBefore |-> sel, selAfter |-> newSel, printersAfter |-> newPrs,
              effects |-> (IF auto THEN <<set.ev>> ELSE <<>>)
                          \o <<EvTray, EvNotify("Refreshed printers")>>]]

\* ------------------------------------------------------------------- state

VARIABLES
  printers,         \* the cached printer list (line 16)
  selectedPrinter,  \* settings.selectedPrinter (line 21)
  fetchImpl,        \* TRUE when fetchImpl is a function, FALSE when null (line 30)
  serverStatus,     \* appState.serverStatus (line 26)
  tmp,              \* the directories under os.tmpdir(): "none", "dir" or "file"
  req,              \* the handlers in flight: locals, position, what each has sent
  out               \* the latest step: the handler that took it (0: the tray or
                    \* none) and the registry calls and replies it made

vars == <<printers, selectedPrinter, fetchImpl, serverStatus, tmp, req, out>>

\* A selection read back by loadSettings: none, an installed printer, or one
\* that has since been removed.
StoredSelections == {NoPrinter, "p1", "old"}

NoOptions == [printer |-> "", copies |-> 0]

Calls(h, evs) == [by |-> h, calls |-> evs]
NoCalls == Calls(0, <<>>)

\* An HTTP response: status and the fields of the JSON body that are present.
Resp(status, ok, error, printer, selected, list) ==
  [status |-> status, ok |-> ok, error |-> error, printer |-> printer,
   selectedPrinter |-> selected, printers |-> list]

Resp400(msg) == Resp(400, FALSE, msg, "", "", <<>>)
Resp404(msg) == Resp(404, FALSE, msg, "", "", <<>>)
Resp500(msg) == Resp(500, FALSE, msg, "", "", <<>>)

\* A free handler.  Beside the handler's locals (url, printerName, copies,
\* normalizedUrl, targetPrinter, printOptions, task) the record keeps what the
\* handler has done so far: the responses and notifications it sent and how
\* often it called refreshPrinters, downloadPdf, mkdtemp, print and cleanup.
IdleReq ==
  [kind |-> "idle", pc |-> "idle",
   url |-> Undef, printerName |-> Undef, copies |-> Undef, name |-> Undef,
   selAtStart |-> NoPrinter, normalizedUrl |-> "", targetPrinter |-> "",
   printOptions |-> NoOptions, dir |-> 0, pending |-> "",
   sent |-> <<>>, notes |-> <<>>, cached |-> FALSE,
   refreshes |-> 0, downloads |-> 0, mkdirs |-> 0, prints |-> <<>>,
   cleanups |-> 0, failure |-> ""]

\* The names in a printer list.
Names(prs) == {prs[i].name : i \in 1..Len(prs)}

\* The module's initial values (lines 16-30) with bootstrap about to call
\* loadSettings: nothing is selected and the list is empty.
Init ==
  /\ printers = <<>>
  /\ selectedPrinter = NoPrinter
  /\ fetchImpl \in BOOLEAN
  /\ serverStatus = "Starting"
  /\ tmp = [d \in DirNames |-> "none"]
  /\ req = [h \in Handlers |->
              IF h = 1 THEN [IdleReq EXCEPT !.kind = "boot", !.pc = "load"]
              ELSE IdleReq]
  /\ out = NoCalls

\* A flow may start in the free handler of least index, the handlers being
\* interchangeable.  The record of a finished handler is read before anything
\* else happens: it is what the client saw and has no effect on the program.
Free(h) ==
  /\ \A k \in Handlers : req[k].pc \notin {"done", "rejected"}
  /\ req[h].pc = "idle"
  /\ \A k \in Handlers : k < h => req[k].pc # "idle"

Quiet == \A k \in Handlers : req[k].pc \notin {"done", "rejected"}

Listening == serverStatus = "Listening"

\* ------------------------------------------------------------ tray actions

\* A click on a printer of the tray's Choose Printer submenu (line 132); the
\* menu is rebuilt by updateTrayMenu in every step that changes printers.
TraySelect ==
  /\ Quiet
  /\ \E i \in 1..Len(printers) :
    LET set == setSelectedPrinter(printers, selectedPrinter, printers[i].name, TRUE, FALSE)
    IN /\ selectedPrinter' = set.sel
       /\ out' = Calls(0, <<set.ev>>)
       /\ UNCHANGED <<printers, fetchImpl, serverStatus, tmp, req>>

\* refreshPrinters up to its await of getPrintersAsync.  hiddenWindow is set
\* by createHiddenWindow before the tray and the server exist and is never
\* reset, so the early return of line 164 is not taken.
StartRefresh(r) == [r EXCEPT !.pc = "enum", !.refreshes = @ + 1]

\* bootstrap's loadSettings (lines 362, 90-101): the stored selection is merged
\* over the default without a look at any printer list; bootstrap then creates
\* the hidden window and the tray and calls refreshPrinters (lines 363-365).
LoadSettings(h, stored) ==
  /\ req[h].kind = "boot"
  /\ req[h].pc = "load"
  /\ \E s \in stored :
       /\ selectedPrinter' = s
       /\ out' = Calls(h, <<[fn |-> "loadSettings", before |-> selectedPrinter,
                             after |-> s]>>)
  /\ req' = [req EXCEPT ![h] = StartRefresh(@)]
  /\ UNCHANGED <<printers, fetchImpl, serverStatus, tmp>>

\* bootstrap has created the tray (line 364, after loadSettings).
TrayReady == \A k \in Handlers : req[k].pc # "load"

\* A click on Refresh Printers (line 139).
TrayRefresh(h) ==
  /\ TrayReady
  /\ Free(h)
  /\ req' = [req EXCEPT ![h] = StartRefresh([IdleReq EXCEPT !.kind = "tray"])]
  /\ out' = NoCalls
  /\ UNCHANGED <<printers, selectedPrinter, fetchImpl, serverStatus, tmp>>

\* ------------------------------------------------- status, select, refresh

PrinterView(prs) == prs

\* GET /status
Status ==
  /\ Listening
  /\ Quiet
  /\ out' = Calls(0, <<[fn |-> "status",
                        res |-> Resp(200, TRUE, "", "", selectedPrinter,
                                     PrinterView(printers))],
                       EvNotify("DTF Gangsheet Printer Bridge started.")>>)
  /\ UNCHANGED <<printers, selectedPrinter, fetchImpl, serverStatus, tmp, req>>

\* What POST /printers/select may carry as name.
NameArgs == {Undef, Num(3), Str(""), Str("p1"), Str(" p2 "), Str("zz")}

\* Mutant: a name not found is answered 404 and selected all the same.
SelectFinish_SelectThen404(r, prs, sel) ==
  LET set == setSelectedPrinter(prs, sel, r.targetPrinter, TRUE, FALSE)
  IN IF HasPrinter(prs, r.targetPrinter)
     THEN [r |-> [r EXCEPT !.pc = "done",
                           !.sent = Append(@, Resp(200, TRUE, "", "", r.targetPrinter, <<>>))],
           sel |-> set.sel, ev |-> <<set.ev>>]
     ELSE [r |-> [r EXCEPT !.pc = "done",
                           !.sent = Append(@, Resp404("Printer not found."))],
           sel |-> set.sel, ev |-> <<set.ev>>]

\* Mutant: the name asked for is selected without the second lookup.
SelectFinish_NoLookup(r, prs, sel) ==
  LET set == setSelectedPrinter(prs, sel, r.targetPrinter, TRUE, FALSE)
  IN [r |-> [r EXCEPT !.pc = "done",
                      !.sent = Append(@, Resp(200, TRUE, "", "", r.targetPrinter, <<>>))],
      sel |-> set.sel, ev |-> <<set.ev>>]

\* Mutant: the printer found is answered 200 but not selected.
SelectFinish_AnswerOnly(r, prs, sel) ==
  IF HasPrinter(prs, r.targetPrinter)
  THEN [r |-> [r EXCEPT !.pc = "done",
                        !.sent = Append(@, Resp(200, TRUE, "", "", r.targetPrinter, <<>>))],
        sel |-> sel, ev |-> <<>>]
  ELSE [r |-> [r EXCEPT !.pc = "done",
                        !.sent = Append(@, Resp404("Printer not found."))],
        sel |-> sel, ev |-> <<>>]

\* Lines 244-250 of the select handler, run with list prs and selection sel.
SelectFinish(r, prs, sel) ==
  IF HasPrinter(prs, r.targetPrinter)
  THEN LET set == setSelectedPrinter(prs, sel, r.targetPrinter, TRUE, FALSE)
       IN [r |-> [r EXCEPT !.pc = "done",
                           !.sent = Append(@, Resp(200, TRUE, "", "", r.targetPrinter, <<>>))],
           sel |-> set.sel, ev |-> <<set.ev>>]
  ELSE [r |-> [r EXCEPT !.pc = "done",
                        !.sent = Append(@, Resp404("Printer not found."))],
        sel |-> sel, ev |-> <<>>]

\* POST /printers/select up to its first await or its response.
SelectRequest(h, names) ==
  /\ Listening
  /\ Free(h)
  /\ \E name \in names :
       LET r0 == [IdleReq EXCEPT !.kind = "select", !.name = name,
                                 !.selAtStart = selectedPrinter]
       IN IF ~Truthy(name) \/ ~IsString(name)
          THEN /\ req' = [req EXCEPT ![h] =
                            [r0 EXCEPT !.pc = "done",
                                       !.sent = <<Resp400("Printer \"name\" is required.")>>]]
               /\ out' = NoCalls
               /\ UNCHANGED selectedPrinter
          ELSE LET r1 == [r0 EXCEPT !.targetPrinter = Trim(name.s),
                                    !.cached = Trim(name.s) \in Names(printers)]
               IN IF HasPrinter(printers, r1.targetPrinter)
                  THEN LET fin == SelectFinish(r1, printers, selectedPrinter)
                       IN /\ req' = [req EXCEPT ![h] = fin.r]
                          /\ selectedPrinter' = fin.sel
                          /\ out' = Calls(h, fin.ev)
                  ELSE /\ req' = [req EXCEPT ![h] = StartRefresh(r1)]
                       /\ out' = NoCalls
                       /\ UNCHANGED selectedPrinter
  /\ UNCHANGED <<printers, fetchImpl, serverStatus, tmp>>

\* POST /printers/refresh up to its await; noted is the selection the handler
\* record keeps as found on arrival (the handler itself never reads it).
RefreshRequest(h, noted) ==
  /\ Listening
  /\ Free(h)
  /\ req' = [req EXCEPT ![h] = StartRefresh([IdleReq EXCEPT !.kind = "refresh",
                                                          !.selAtStart = noted])]
  /\ out' = NoCalls
  /\ UNCHANGED <<printers, selectedPrinter, fetchImpl, serverStatus, tmp>>

\* ------------------------------------------------------------- POST /print

\* What POST /print may carry as url, printerName and copies.
UrlArgs == {Undef, Num(7), Str(""), Str("ftp://x"), Str("not a url"),
            Str(" HTTPS://a/b.pdf ")}
PrinterArgs == {Undef, Num(5), Str("  "), Str("p1"), Str(" p2 "), Str("zz")}
CopiesArgs == {Undef, Num(2)}

\* The directory names mkdtemp may still create.
FreeDirs(t) == {d \in DirNames : t[d] = "none"}

\* mkdtemp creates a directory no other has: of the free names the model takes
\* the least, the names being interchangeable.
NewDir(t) == CHOOSE d \in FreeDirs(t) : \A e \in FreeDirs(t) : d <= e

\* The messages of the errors the capabilities raise.
FetchError == "fetch failed"
BodyError == "terminated"
MkdtempError == "ENOSPC: mkdtemp"
WriteError == "ENOSPC: write"
PrintError == "printer offline"
RmError == "EBUSY: rm"

\* Mutant: the catch block answers 500 and notifies whatever was sent before.
Catch_Again(r, message) ==
  [r EXCEPT !.pc = "done", !.failure = message,
            !.sent = Append(@, Resp500(message)),
            !.notes = Append(@, "Print failed: " \o message)]

\* The catch block of the print handler (lines 303-307).  Express's res.json
\* throws once a response has been sent (ERR_HTTP_HEADERS_SENT), which rejects
\* the handler before notify is reached.
Catch(r, message) ==
  IF r.sent # <<>>
  THEN [r EXCEPT !.pc = "rejected", !.failure = message]
  ELSE [r EXCEPT !.pc = "done", !.failure = message,
                 !.sent = Append(@, Resp500(message)),
                 !.notes = Append(@, "Print failed: " \o message)]

\* Mutant: any number parsed is passed on, positive or not.
PrintOptions_AnyNumber(targetPrinter, copies) ==
  LET copiesValue == ParseInt(copies)
  IN [printer |-> targetPrinter,
      copies |-> IF ~copiesValue.nan THEN copiesValue.val ELSE 0]

\* printOptions (lines 289-293); copies 0 stands for the option left out.
PrintOptions(targetPrinter, copies) ==
  LET copiesValue == ParseInt(copies)
  IN [printer |-> targetPrinter,
      copies |-> IF ~copiesValue.nan /\ copiesValue.val > 0 THEN copiesValue.val ELSE 0]

\* Lines 289-295 up to the await of fetch: the options, then downloadPdf,
\* which throws at once when there is no fetch.
Download(r, haveFetch) ==
  LET r1 == [r EXCEPT !.printOptions = PrintOptions(r.targetPrinter, r.copies),
                      !.downloads = @ + 1]
  IN IF ~haveFetch
     THEN Catch(r1, "Fetch API is not available in this version of Electron.")
     ELSE [r1 EXCEPT !.pc = "fetch"]

\* (printerName || settings.selectedPrinter || '') of line 279.
TargetSource(printerName, sel) == IF Truthy(printerName) THEN printerName ELSE Str(sel)

\* Lines 284-288 once ensurePrinterAvailable has answered.
Availability(r, printerReady, haveFetch) ==
  IF ~printerReady
  THEN [r EXCEPT !.pc = "done",
                 !.sent = Append(@, Resp404("Selected printer is not available."))]
  ELSE Download(r, haveFetch)

\* Mutant: the list is not looked at again after the refresh.
ensureRecheck_Never(prs, targetPrinter) == FALSE

\* Mutant: the refresh is taken to have found the printer.
ensureRecheck_Always(prs, targetPrinter) == TRUE

\* The second look of ensurePrinterAvailable, after its refresh (line 210).
ensureRecheck(prs, targetPrinter) == HasPrinter(prs, targetPrinter)

\* POST /print up to its first await or its response.
PrintRequest(h, urls, printerNames, copiesArgs) ==
  /\ Listening
  /\ Free(h)
  /\ \E url \in urls, printerName \in printerNames, copies \in copiesArgs :
       LET r0 == [IdleReq EXCEPT !.kind = "print", !.url = url,
                                 !.printerName = printerName, !.copies = copies]
           src == TargetSource(printerName, selectedPrinter)
       IN req' = [req EXCEPT ![h] =
            IF ~Truthy(url) \/ ~IsString(url)
            THEN [r0 EXCEPT !.pc = "done",
                            !.sent = <<Resp400("Field \"url\" is required.")>>]
            ELSE IF ~IsHttpUrl(Trim(url.s))
            THEN [r0 EXCEPT !.pc = "done",
                            !.sent = <<Resp400("Only http/https URLs are supported.")>>]
            ELSE IF ~IsString(src)
            THEN \* .trim is not a function: the handler rejects with a TypeError
                 [r0 EXCEPT !.pc = "rejected", !.normalizedUrl = Trim(url.s),
                            !.failure = "TypeError"]
            ELSE IF Trim(src.s) = ""
            THEN [r0 EXCEPT !.pc = "done", !.normalizedUrl = Trim(url.s),
                            !.sent = <<Resp400("No printer selected.")>>]
            ELSE LET r1 == [r0 EXCEPT !.normalizedUrl = Trim(url.s),
                                      !.selAtStart = IF Truthy(printerName) THEN NoPrinter
                                                     ELSE selectedPrinter,
                                      !.targetPrinter = Trim(src.s),
                                      !.cached = Trim(src.s) \in Names(printers)]
                 IN \* ensurePrinterAvailable, lines 205-209
                    IF HasPrinter(printers, r1.targetPrinter)
                    THEN Availability(r1, TRUE, fetchImpl)
                    ELSE StartRefresh(r1)]
  /\ out' = NoCalls
  /\ UNCHANGED <<printers, selectedPrinter, fetchImpl, serverStatus, tmp>>

\* getPrintersAsync settles: the rest of refreshPrinters, then what the caller
\* does up to its next await.
EnumDone(h, outcomes) ==
  /\ Quiet
  /\ req[h].pc = "enum"
  /\ \E o \in outcomes :
       LET rf == refreshPrinters(printers, selectedPrinter, o)
           r == req[h]
       IN /\ printers' = rf.printers
          /\ CASE r.kind = "print" ->
                    \* ensurePrinterAvailable, line 210
                    /\ req' = [req EXCEPT ![h] =
                         Availability(r, ensureRecheck(rf.printers, r.targetPrinter),
                                      fetchImpl)]
                    /\ selectedPrinter' = rf.sel
                    /\ out' = Calls(h, <<rf.ev>>)
               [] r.kind = "select" ->
                    LET fin == SelectFinish(r, rf.printers, rf.sel)
                    IN /\ req' = [req EXCEPT ![h] = fin.r]
                       /\ selectedPrinter' = fin.sel
                       /\ out' = Calls(h, <<rf.ev>> \o fin.ev)
               [] r.kind = "refresh" ->
                    /\ req' = [req EXCEPT ![h] =
                         [r EXCEPT !.pc = "done",
                                   !.sent = Append(@, Resp(200, TRUE, "", "", "",
                                                           PrinterView(rf.printers)))]]
                    /\ selectedPrinter' = rf.sel
                    /\ out' = Calls(h, <<rf.ev>>)
               [] r.kind = "tray" ->
                    /\ req' = [req EXCEPT ![h] = IdleReq]
                    /\ selectedPrinter' = rf.sel
                    /\ out' = Calls(h, <<rf.ev>>)
               [] r.kind = "boot" ->
                    \* bootstrap goes on to startServer (line 367)
                    /\ req' = [req EXCEPT ![h] = [r EXCEPT !.pc = "listen"]]
                    /\ selectedPrinter' = rf.sel
                    /\ out' = Calls(h, <<rf.ev>>)
  /\ UNCHANGED <<fetchImpl, serverStatus, tmp>>

\* serverApp.listen calls back, or the server emits an error (lines 320-330,
\* 368-370).
ListenDone(h) ==
  /\ Quiet
  /\ req[h].pc = "listen"
  /\ \E ok \in BOOLEAN :
       /\ serverStatus' = IF ok THEN "Listening" ELSE "Error"
       /\ out' = Calls(h, <<EvTray>> \o
                 (IF ok THEN <<>>
                  ELSE <<EvNotify("Unable to start local server. See logs.")>>))
  /\ req' = [req EXCEPT ![h] = IdleReq]
  /\ UNCHANGED <<printers, selectedPrinter, fetchImpl, tmp>>

\* fetchImpl(fileUrl) settles (lines 185-189).
FetchDone(h) ==
  /\ Quiet
  /\ req[h].pc = "fetch"
  /\ \E outcome \in {"reject", "notok", "ok"} :
       req' = [req EXCEPT ![h] =
         CASE outcome = "reject" -> Catch(@, FetchError)
           [] outcome = "notok" -> Catch(@, "Download failed: HTTP 404")
           [] outcome = "ok" -> [@ EXCEPT !.pc = "body"]]
  /\ out' = NoCalls
  /\ UNCHANGED <<printers, selectedPrinter, fetchImpl, serverStatus, tmp>>

\* Mutant: the body is tested for emptiness only after mkdtemp.
BodyDone_CheckAfterMkdtemp(h) ==
  /\ Quiet
  /\ req[h].pc = "body"
  /\ \/ /\ req' = [req EXCEPT ![h] = Catch(@, BodyError)]
        /\ UNCHANGED tmp
     \/ /\ req' = [req EXCEPT ![h] = [@ EXCEPT !.pc = "mkdtemp"]]
        /\ UNCHANGED tmp
     \/ /\ FreeDirs(tmp) # {}
        /\ tmp' = [tmp EXCEPT ![NewDir(tmp)] = "dir"]
        /\ req' = [req EXCEPT ![h] =
             Catch([@ EXCEPT !.dir = NewDir(tmp), !.mkdirs = @ + 1],
                   "Downloaded file is empty.")]
  /\ out' = NoCalls
  /\ UNCHANGED <<printers, selectedPrinter, fetchImpl, serverStatus>>

\* response.arrayBuffer() settles (lines 189-193).
BodyDone(h) ==
  /\ Quiet
  /\ req[h].pc = "body"
  /\ \E outcome \in {"reject", "empty", "data"} :
       req' = [req EXCEPT ![h] =
         CASE outcome = "reject" -> Catch(@, BodyError)
           [] outcome = "empty" -> Catch(@, "Downloaded file is empty.")
           [] outcome = "data" -> [@ EXCEPT !.pc = "mkdtemp"]]
  /\ out' = NoCalls
  /\ UNCHANGED <<printers, selectedPrinter, fetchImpl, serverStatus, tmp>>

\* fs.promises.mkdtemp settles (lines 193-195).
MkdtempDone(h) ==
  /\ Quiet
  /\ req[h].pc = "mkdtemp"
  /\ \/ /\ req' = [req EXCEPT ![h] = Catch(@, MkdtempError)]
        /\ UNCHANGED tmp
     \/ /\ FreeDirs(tmp) # {}
        /\ tmp' = [tmp EXCEPT ![NewDir(tmp)] = "dir"]
        /\ req' = [req EXCEPT ![h] = [@ EXCEPT !.pc = "write", !.dir = NewDir(tmp),
                                               !.mkdirs = @ + 1]]
  /\ out' = NoCalls
  /\ UNCHANGED <<printers, selectedPrinter, fetchImpl, serverStatus>>

\* fs.promises.writeFile settles; on success downloadPdf returns the task and
\* the handler calls print (lines 195-201, 295-297).
WriteDone(h) ==
  /\ Quiet
  /\ req[h].pc = "write"
  /\ \/ /\ req' = [req EXCEPT ![h] = Catch(@, WriteError)]
        /\ UNCHANGED tmp
     \/ /\ tmp' = [tmp EXCEPT ![req[h].dir] = IF @ = "none" THEN "none" ELSE "file"]
        /\ req' = [req EXCEPT ![h] =
             [@ EXCEPT !.pc = "print",
                       !.prints = Append(@, [file |-> req[h].dir,
                                             exists |-> tmp'[req[h].dir] = "file",
                                             options |-> req[h].printOptions])]]
  /\ out' = NoCalls
  /\ UNCHANGED <<printers, selectedPrinter, fetchImpl, serverStatus>>

\* Mutant: cleanup follows a successful print only (no finally).
PrintDone_NoFinally(h) ==
  /\ Quiet
  /\ req[h].pc = "print"
  /\ \E ok \in BOOLEAN :
       req' = [req EXCEPT ![h] =
         IF ok
         THEN [@ EXCEPT !.pc = "cleanup", !.cleanups = @ + 1,
                        !.sent = Append(@, Resp(200, TRUE, "", req[h].targetPrinter, "", <<>>)),
                        !.notes = Append(@, "Sent document to "
                                    \o getPrinterDisplayName(printers, req[h].targetPrinter))]
         ELSE Catch([@ EXCEPT !.pending = PrintError], PrintError)]
  /\ out' = NoCalls
  /\ UNCHANGED <<printers, selectedPrinter, fetchImpl, serverStatus, tmp>>

\* print(task.filePath, printOptions) settles; the finally block then calls
\* task.cleanup (lines 297-301).
PrintDone(h) ==
  /\ Quiet
  /\ req[h].pc = "print"
  /\ \E ok \in BOOLEAN :
       req' = [req EXCEPT ![h] =
         IF ok
         THEN [@ EXCEPT !.pc = "cleanup", !.cleanups = @ + 1,
                        !.sent = Append(@, Resp(200, TRUE, "", req[h].targetPrinter, "", <<>>)),
                        !.notes = Append(@, "Sent document to "
                                    \o getPrinterDisplayName(printers, req[h].targetPrinter))]
         ELSE [@ EXCEPT !.pc = "cleanup", !.cleanups = @ + 1, !.pending = PrintError]]
  /\ out' = NoCalls
  /\ UNCHANGED <<printers, selectedPrinter, fetchImpl, serverStatus, tmp>>

\* Mutant: the removal sweeps every directory under os.tmpdir().
CleanupDone_Sweep(h) ==
  /\ Quiet
  /\ req[h].pc = "cleanup"
  /\ \/ /\ tmp' = [d \in DirNames |-> "none"]
        /\ req' = [req EXCEPT ![h] =
             IF @.pending # "" THEN Catch(@, @.pending) ELSE [@ EXCEPT !.pc = "done"]]
     \/ /\ UNCHANGED tmp
        /\ req' = [req EXCEPT ![h] = Catch(@, RmError)]
  /\ out' = NoCalls
  /\ UNCHANGED <<printers, selectedPrinter, fetchImpl, serverStatus>>

\* fs.promises.rm(tempDir, {recursive, force}) settles (lines 199, 301-307):
\* an error of the removal replaces the one pending from print.
CleanupDone(h) ==
  /\ Quiet
  /\ req[h].pc = "cleanup"
  /\ \/ /\ tmp' = [tmp EXCEPT ![req[h].dir] = "none"]
        /\ req' = [req EXCEPT ![h] =
             IF @.pending # "" THEN Catch(@, @.pending) ELSE [@ EXCEPT !.pc = "done"]]
     \/ /\ UNCHANGED tmp
        /\ req' = [req EXCEPT ![h] = Catch(@, RmError)]
  /\ out' = NoCalls
  /\ UNCHANGED <<printers, selectedPrinter, fetchImpl, serverStatus>>

\* The handler has returned (or rejected); its slot serves the next request.
Retire(h) ==
  /\ req[h].pc \in {"done", "rejected"}
  /\ req' = [req EXCEPT ![h] = IdleReq]
  /\ out' = NoCalls
  /\ UNCHANGED <<printers, selectedPrinter, fetchImpl, serverStatus, tmp>>

\* The steps every flow takes once started, and the tray's and /status's,
\* with the given outcomes of an enumeration.
Step(outcomes) ==
  \/ TraySelect
  \/ Status
  \/ \E h \in Handlers :
       \/ EnumDone(h, outcomes)
       \/ ListenDone(h)
       \/ FetchDone(h)
       \/ BodyDone(h)
       \/ MkdtempDone(h)
       \/ WriteDone(h)
       \/ PrintDone(h)
       \/ CleanupDone(h)
       \/ Retire(h)

\* Requests with a body one at a time, with every shape of body, beside at
\* most one refresh asked for from the tray or by POST /printers/refresh.
Sequential == \A k \in Handlers : req[k].pc = "idle"
NoRefreshFlow == \A k \in Handlers : req[k].kind \notin {"tray", "refresh"}

Next ==
  \/ Step(EnumOutcomes)
  \/ \E h \in Handlers : LoadSettings(h, StoredSelections)
  \/ /\ NoRefreshFlow
     /\ \E h \in Handlers :
          \/ TrayRefresh(h)
          \/ RefreshRequest(h, NoPrinter)
  \/ /\ Sequential
     /\ \E h \in Handlers :
          \/ SelectRequest(h, NameArgs)
          \/ PrintRequest(h, UrlArgs, PrinterArgs, CopiesArgs)

Spec == Init /\ [][Next]_vars

\* Few request bodies and few enumerations (no printer, p1 and the default p2,
\* a failure) for the specifications with up to MaxInFlight flows at once.
ConcUrlArgs == {Str(" HTTPS://a/b.pdf ")}
ConcPrinterArgs == {Undef, Str("p1")}
ConcCopiesArgs == {Undef}
ConcNameArgs == {Str("p1"), Str(" p2 ")}
ConcOutcomes ==
  {o \in EnumOutcomes :
     \/ ~o.ok
     \/ o.list = <<>>
     \/ o.list = <<Printer("p1", FALSE), Printer("p2", TRUE)>>}

\* Up to MaxInFlight refreshes at once, of every origin: startup, the tray,
\* POST /printers/refresh, and the fallback of a select and of a print
\* request, with selections from the tray and by request in between.  No
\* stored selection is loaded, so p1 is only ever selected by a select
\* operation; there is no fetch, so a print request ends after its
\* availability check.
InitRefresh ==
  /\ Init
  /\ ~fetchImpl

NextRefresh ==
  \/ TraySelect
  \/ \E h \in Handlers :
       \/ LoadSettings(h, {NoPrinter})
       \/ EnumDone(h, ConcOutcomes)
       \/ ListenDone(h)
       \/ TrayRefresh(h)
       \/ RefreshRequest(h, selectedPrinter)
       \/ SelectRequest(h, ConcNameArgs)
       \/ PrintRequest(h, ConcUrlArgs, ConcPrinterArgs, ConcCopiesArgs)
       \/ Retire(h)

SpecRefresh == InitRefresh /\ [][NextRefresh]_vars

\* Up to MaxInFlight POST /print requests at once for the one printer
\* installed, every download, write, print and removal free to fail.
PrintsOutcomes == {o \in EnumOutcomes : o.ok /\ o.list = <<Printer("p1", FALSE)>>}

InitPrints ==
  /\ Init
  /\ fetchImpl

NextPrints ==
  \E h \in Handlers :
    \/ LoadSettings(h, {NoPrinter})
    \/ EnumDone(h, PrintsOutcomes)
    \/ ListenDone(h)
    \/ PrintRequest(h, ConcUrlArgs, {Str("p1")}, ConcCopiesArgs)
    \/ FetchDone(h)
    \/ BodyDone(h)
    \/ MkdtempDone(h)
    \/ WriteDone(h)
    \/ PrintDone(h)
    \/ CleanupDone(h)
    \/ Retire(h)

SpecPrints == InitPrints /\ [][NextPrints]_vars

\* setSelectedPrinter applied to any name, with and without persist and silent,
\* on any list and selection.
SelectArgs == {"", "p1", "p2", "old"}

InitSelect ==
  /\ printers \in OSLists
  /\ selectedPrinter \in StoredSelections
  /\ fetchImpl = TRUE
  /\ serverStatus = "Listening"
  /\ tmp = [d \in DirNames |-> "none"]
  /\ req = [h \in Handlers |-> IdleReq]
  /\ out = NoCalls

ApplySelect ==
  \E name \in SelectArgs, persist \in BOOLEAN, silent \in BOOLEAN :
    LET set == setSelectedPrinter(printers, selectedPrinter, name, persist, silent)
    IN /\ selectedPrinter' = set.sel
       /\ out' = Calls(0, <<set.ev>>)
       /\ UNCHANGED <<printers, fetchImpl, serverStatus, tmp, req>>

NextSelect == ApplySelect

SpecSelect == InitSelect /\ [][NextSelect]_vars

\* POST /print one at a time with every shape of copies, for a printer named
\* or selected, beside the tray.
CopiesRange ==
  {Undef, Num(0), Num(-3), Num(1), Num(12), Str("3"), Str(" 4 copies"),
   Str("0"), Str("-2"), Str("two"), Str("")}
CopiesPrinterArgs == {Undef, Str("p1"), Str("zz")}

NextCopies ==
  \/ Step(ConcOutcomes)
  \/ \E h \in Handlers : LoadSettings(h, {NoPrinter, "p1"})
  \/ /\ Sequential
     /\ \E h \in Handlers : PrintRequest(h, ConcUrlArgs, CopiesPrinterArgs, CopiesRange)

SpecCopies == Init /\ [][NextCopies]_vars

\* ------------------------------------------------------------------ claims

IsPrint(h) == req[h].kind = "print"
Finished(h) == req[h].pc \in {"done", "rejected"}

\* Handler h has just resumed from the refresh it was waiting for.
JustRefreshed(h) ==
  /\ out.by = h
  /\ Len(out.calls) >= 1
  /\ out.calls[1].fn = "refreshPrinters"

\* The setSelectedPrinter calls of the latest step: those made directly and
\* those made by a refresh.
IsSetCall(e) == e.fn = "setSelectedPrinter"
IsRefreshCall(e) == e.fn = "refreshPrinters"

UrlInvalid(url) ==
  \/ url.t # "str"
  \/ url.s = ""
  \/ LET u == Trim(url.s)
     IN ~(\/ Len(u) >= 7 /\ Lower(SubSeq(u, 1, 7)) = "http://"
          \/ Len(u) >= 8 /\ Lower(SubSeq(u, 1, 8)) = "https://")

\* No target printer can be resolved: the name given, or else the selection
\* the request found, is empty or blank.  (A selection, once made, is never
\* cleared: none now means none when the request arrived.)
NoTarget(h) ==
  \/ req[h].printerName.t = "undef" /\ selectedPrinter = NoPrinter
  \/ req[h].printerName.t = "str" /\ req[h].printerName.s = "" /\ selectedPrinter = NoPrinter
  \/ req[h].printerName.t = "str" /\ req[h].printerName.s # "" /\ Trim(req[h].printerName.s) = ""

\* C2: a POST /print that fails validation (url missing, not a string or not
\* http(s); no target printer resolvable) is answered 400 in the step that
\* receives it, and has refreshed, downloaded, created and printed nothing.
C2_ValidationOnly ==
  \A h \in Handlers :
    (IsPrint(h) /\ (UrlInvalid(req[h].url) \/ NoTarget(h)))
      => /\ req[h].pc = "done"
         /\ req[h].refreshes = 0
         /\ req[h].downloads = 0
         /\ Len(req[h].sent) = 1
         /\ req[h].sent[1].status = 400
         /\ ~req[h].sent[1].ok
         /\ req[h].mkdirs = 0
         /\ req[h].prints = <<>>
         /\ req[h].dir = 0

\* An ftp URL sent while a printer is selected and listed has been answered 400.
C2_Witness ==
  \E h \in Handlers :
    /\ IsPrint(h) /\ req[h].pc = "done"
    /\ req[h].url = Str("ftp://x")
    /\ req[h].printerName = Str("p1")
    /\ "p1" \in Names(printers)
    /\ req[h].sent = <<Resp400("Only http/https URLs are supported.")>>

\* C3: a POST /print calls refreshPrinters at most once: not at all when its
\* target is in the cached list, once when it is not; and when the target is in
\* the list after that refresh the request goes on to download, and answers
\* 200 naming the target once print has succeeded.
C3_OneRefresh ==
  \A h \in Handlers :
    IsPrint(h) =>
      /\ req[h].refreshes <= 1
      /\ req[h].targetPrinter # "" =>
           req[h].refreshes = (IF req[h].cached THEN 0 ELSE 1)
      /\ (JustRefreshed(h) /\ req[h].targetPrinter \in Names(printers)) =>
           /\ req[h].downloads = 1
           /\ \/ req[h].pc = "fetch"
              \/ ~fetchImpl /\ req[h].pc = "done" /\ req[h].sent[1].status = 500
      /\ (req[h].pc \in {"cleanup", "done", "rejected"} /\ req[h].prints # <<>>
            /\ req[h].pending = "") =>
           /\ Len(req[h].sent) = 1
           /\ req[h].sent[1] = Resp(200, TRUE, "", req[h].targetPrinter, "", <<>>)

\* A request that had to refresh once has been answered 200.
C3_Witness ==
  \E h \in Handlers :
    /\ IsPrint(h) /\ req[h].pc = "done"
    /\ ~req[h].cached /\ req[h].refreshes = 1
    /\ req[h].sent = <<Resp(200, TRUE, "", req[h].targetPrinter, "", <<>>)>>

\* C4: a POST /print whose target was not in the list when it arrived and is not
\* in it after the refresh it triggered (also when the enumeration failed and the
\* stale list was kept, also for a stale selection) is answered 404 and has
\* downloaded and printed nothing.
C4_NotFound ==
  \A h \in Handlers :
    IsPrint(h) =>
      /\ (JustRefreshed(h) /\ ~req[h].cached
            /\ req[h].targetPrinter \notin Names(printers)) =>
           /\ req[h].pc = "done"
           /\ req[h].sent = <<Resp404("Selected printer is not available.")>>
      /\ (req[h].sent # <<>> /\ req[h].sent[1].status = 404) =>
           /\ req[h].pc = "done"
           /\ req[h].refreshes = 1
           /\ req[h].downloads = 0
           /\ req[h].mkdirs = 0
           /\ req[h].prints = <<>>
           /\ req[h].notes = <<>>

\* The stale selection of a request without printerName is still missing after
\* an enumeration that failed and left a non-empty list in place: 404.
C4_Witness ==
  \E h \in Handlers :
    /\ IsPrint(h) /\ req[h].pc = "done"
    /\ req[h].printerName = Undef /\ req[h].targetPrinter = "old"
    /\ JustRefreshed(h) /\ ~out.calls[1].ok
    /\ printers # <<>>
    /\ req[h].sent = <<Resp404("Selected printer is not available.")>>

\* The effects of a setSelectedPrinter call that are settings writes, menu
\* rebuilds, notifications.
Writes(e) == SelectSeq(e.effects, LAMBDA x : x.fn = "persistSettings")
Rebuilds(e) == SelectSeq(e.effects, LAMBDA x : x.fn = "updateTrayMenu")
Notices(e) == SelectSeq(e.effects, LAMBDA x : x.fn = "notify")

\* C5: setSelectedPrinter called with an empty name or with the name already
\* selected changes nothing, writes no settings and emits no change event; any
\* other call selects the name with exactly one settings write (when asked to
\* persist), one menu rebuild and one notification (unless silent), so that a
\* repetition of it is again a call with the selected name.
C5_SelectIdempotent ==
  \A i \in 1..Len(out.calls) :
    IsSetCall(out.calls[i]) =>
      LET e == out.calls[i]
      IN /\ (e.name = "" \/ e.name = e.before) =>
              /\ e.after = e.before
              /\ e.effects = <<>>
              /\ selectedPrinter = e.before
         /\ ~(e.name = "" \/ e.name = e.before) =>
              /\ e.after = e.name
              /\ selectedPrinter = e.name
              /\ Writes(e) = (IF e.persist THEN <<EvPersist(e.name)>> ELSE <<>>)
              /\ Len(Rebuilds(e)) = 1
              /\ Len(Notices(e)) = (IF e.silent THEN 0 ELSE 1)
              /\ Len(e.effects) = Len(Writes(e)) + Len(Rebuilds(e)) + Len(Notices(e))

\* The name already selected has been selected again.
C5_Witness ==
  /\ Len(out.calls) = 1
  /\ IsSetCall(out.calls[1])
  /\ out.calls[1].name # ""
  /\ out.calls[1].name = out.calls[1].before
  /\ out.calls[1].effects = <<>>

\* The name refreshPrinters is to auto-select from a list: that of the first
\* entry flagged isDefault, else that of the first entry.
DefaultOrFirst(list) ==
  LET flagged == {i \in 1..Len(list) : list[i].isDefault}
  IN IF flagged = {} THEN list[1].name
     ELSE list[CHOOSE i \in flagged : \A j \in flagged : i <= j].name

\* C6: a refresh whose enumeration succeeded has replaced the list by the
\* enumerated one; it auto-selected if and only if nothing was selected and the
\* new list is not empty, then selecting the isDefault printer, else the first,
\* with a settings write and no notification of the selection; with a printer
\* selected it left the selection alone.
C6_AutoSelect ==
  \A i \in 1..Len(out.calls) :
    (IsRefreshCall(out.calls[i]) /\ out.calls[i].ok) =>
      LET e == out.calls[i]
          auto == e.selBefore = NoPrinter /\ e.list # <<>>
      IN /\ e.printersAfter = e.list
         /\ printers = e.list
         /\ auto =>
              /\ e.selAfter = DefaultOrFirst(e.list)
              /\ Len(e.effects) = 3
              /\ IsSetCall(e.effects[1])
              /\ e.effects[1].name = DefaultOrFirst(e.list)
              /\ e.effects[1].effects = <<EvPersist(DefaultOrFirst(e.list)), EvTray>>
         /\ ~auto =>
              /\ e.selAfter = e.selBefore
              /\ \A k \in 1..Len(e.effects) : ~IsSetCall(e.effects[k])
         /\ \A k \in 1..Len(e.effects) :
              e.effects[k].fn = "notify" => e.effects[k].body = "Refreshed printers"
         /\ (req[out.by].kind # "select" \/ req[out.by].sent[1].status # 200) =>
              selectedPrinter = e.selAfter

\* With nothing selected, a refresh has selected the flagged default, which is
\* not the first entry.
C6_Witness ==
  /\ Len(out.calls) >= 1
  /\ IsRefreshCall(out.calls[1]) /\ out.calls[1].ok
  /\ out.calls[1].selBefore = NoPrinter
  /\ Len(out.calls[1].list) = 2
  /\ out.calls[1].list[2].isDefault
  /\ selectedPrinter = out.calls[1].list[2].name

\* The step is the one in which a refresh learns that its enumeration failed.
EnumFailed ==
  /\ Len(out'.calls) >= 1
  /\ IsRefreshCall(out'.calls[1])
  /\ ~out'.calls[1].ok

\* C7: the step in which a refresh learns that its enumeration failed leaves
\* list and selection as they were (a selection made right after by the select
\* handler that was waiting aside), and the handler that was waiting carries
\* on: it has answered once or goes on to download.
C7_StaleKept ==
  [][EnumFailed =>
       LET r == req'[out'.by]
       IN /\ printers' = printers
          /\ out'.calls[1].printersAfter = printers
          /\ out'.calls[1].selAfter = selectedPrinter
          /\ (r.kind # "select" \/ r.sent[1].status # 200) =>
               selectedPrinter' = selectedPrinter
          /\ r.pc # "rejected"
          /\ r.kind \in {"select", "refresh"} => r.pc = "done" /\ Len(r.sent) = 1
          /\ r.kind = "print" =>
               \/ r.pc = "done" /\ Len(r.sent) = 1
               \/ r.pc = "fetch" /\ r.sent = <<>>]_vars

\* A failed enumeration has left a non-empty list and a selection in place and
\* the print request that triggered it has been answered.
C7_Witness ==
  \E h \in Handlers :
    /\ IsPrint(h) /\ JustRefreshed(h) /\ ~out.calls[1].ok
    /\ printers # <<>> /\ selectedPrinter # NoPrinter
    /\ req[h].pc = "done" /\ Len(req[h].sent) = 1

\* The messages with which downloadPdf fails before it creates anything: no
\* fetch, an HTTP status that is not ok, an empty body.
FetchFailures ==
  {"Fetch API is not available in this version of Electron.",
   "Download failed: HTTP 404",
   "Downloaded file is empty."}

\* C8: a POST /print whose fetch step failed (no fetch, status not ok, empty
\* body) has been answered 500 with that message, has never called print and
\* has created no temporary directory.
C8_FetchFails ==
  \A h \in Handlers :
    (IsPrint(h) /\ req[h].failure \in FetchFailures) =>
      /\ req[h].pc = "done"
      /\ req[h].sent = <<Resp500(req[h].failure)>>
      /\ req[h].prints = <<>>
      /\ req[h].cleanups = 0
      /\ req[h].mkdirs = 0
      /\ req[h].dir = 0

\* An empty download has been answered 500.
C8_Witness ==
  \E h \in Handlers :
    /\ IsPrint(h) /\ req[h].pc = "done"
    /\ req[h].failure = "Downloaded file is empty."
    /\ req[h].sent = <<Resp500("Downloaded file is empty.")>>
    /\ \A d \in DirNames : tmp[d] = "none"

\* C9 as stated: when print has failed the request is answered 500 with the
\* capability's message and a failure notification, and no success response
\* or notification; when print has succeeded it is answered 200 naming the
\* printer, with a success notification naming it.
C9_PrintOutcome ==
  \A h \in Handlers :
    (IsPrint(h) /\ Finished(h) /\ req[h].prints # <<>>) =>
      IF req[h].pending = PrintError
      THEN /\ req[h].sent = <<Resp500(PrintError)>>
           /\ req[h].notes = <<"Print failed: " \o PrintError>>
      ELSE /\ req[h].sent = <<Resp(200, TRUE, "", req[h].targetPrinter, "", <<>>)>>
           /\ Len(req[h].notes) = 1
           /\ \E shown \in {req[h].targetPrinter, DisplayNameOf(req[h].targetPrinter)} :
                req[h].notes[1] = "Sent document to " \o shown

\* The target C10 names for a request: the printerName given (a blank one
\* counting as not given, and white space around a name aside), else the
\* selection the request found.
Given(h) ==
  \/ req[h].printerName.t = "num"
  \/ req[h].printerName.t = "str" /\ Trim(req[h].printerName.s) # ""
NamedTarget(h) ==
  IF Given(h) THEN Trim(req[h].printerName.s) ELSE Trim(req[h].selAtStart)

\* C10 as stated: the target of a POST /print is the printerName given, else
\* the printer selected when the request arrived, else the request fails 400
\* "No printer selected."; print is called for, and the success response names,
\* exactly that target.
C10_Target ==
  \A h \in Handlers :
    (IsPrint(h) /\ ~UrlInvalid(req[h].url)) =>
      /\ (req[h].sent # <<>> /\ req[h].sent[1] = Resp400("No printer selected.")) =>
           ~Given(h) /\ selectedPrinter = NoPrinter
      /\ req[h].pc # "idle" =>
           \/ req[h].sent = <<Resp400("No printer selected.")>>
           \/ req[h].printerName.t # "num" /\ req[h].targetPrinter = NamedTarget(h)
      /\ \A i \in 1..Len(req[h].prints) :
           req[h].prints[i].options.printer = req[h].targetPrinter
      /\ \A i \in 1..Len(req[h].sent) :
           req[h].sent[i].status = 200 => req[h].sent[i].printer = req[h].targetPrinter

\* The copies a request is to be printed with, read off its copies field: the
\* positive integer it holds or begins with, else 0 for none.
CopiesExpected(v) ==
  CASE v = Num(1) -> 1
    [] v = Num(12) -> 12
    [] v = Str("3") -> 3
    [] v = Str(" 4 copies") -> 4
    [] OTHER -> 0

\* C11: print is called with the copies option exactly when the request's
\* copies is present and parses to a positive integer, and then with that
\* integer; whatever copies holds, the request is never answered 400 for it and
\* goes on to the download when its url and its printer are good.
C11_Copies ==
  \A h \in Handlers :
    IsPrint(h) =>
      /\ \A i \in 1..Len(req[h].prints) :
           req[h].prints[i].options.copies = CopiesExpected(req[h].copies)
      /\ \A i \in 1..Len(req[h].sent) :
           req[h].sent[i].status = 400 => (UrlInvalid(req[h].url) \/ NoTarget(h))
      /\ (req[h].cached /\ req[h].pc \notin {"idle", "enum"}) => req[h].downloads = 1

\* A request with copies -3 has been printed without the option and answered
\* 200.
C11_Witness ==
  \E h \in Handlers :
    /\ IsPrint(h) /\ req[h].pc = "done"
    /\ req[h].copies = Num(-3)
    /\ Len(req[h].prints) = 1 /\ req[h].prints[1].options.copies = 0
    /\ req[h].sent = <<Resp(200, TRUE, "", req[h].targetPrinter, "", <<>>)>>

IsSelect(h) == req[h].kind = "select"

\* The name of a select request is missing or not a string.
NameInvalid(name) == name.t # "str" \/ name.s = ""

\* C12: POST /printers/select with a missing or non-string name is answered 400
\* at once; otherwise it refreshes once exactly when the name (white space
\* around it aside) is not in the cached list, and is answered 200 with the
\* name, the name then being the selection, when the list holds the name at
\* that moment, and 404 when it does not; GET /status reports the selection
\* and the list as they are.
C12_Select ==
  /\ \A h \in Handlers :
       IsSelect(h) =>
         /\ NameInvalid(req[h].name) =>
              /\ req[h].pc = "done"
              /\ req[h].refreshes = 0
              /\ req[h].sent = <<Resp400("Printer \"name\" is required.")>>
         /\ ~NameInvalid(req[h].name) =>
              /\ req[h].refreshes = (IF req[h].cached THEN 0 ELSE 1)
              /\ req[h].pc \in {"enum", "done"}
              /\ req[h].pc = "enum" => req[h].sent = <<>>
              /\ req[h].pc = "done" =>
                   IF Trim(req[h].name.s) \in Names(printers)
                   THEN /\ req[h].sent =
                             <<Resp(200, TRUE, "", "", Trim(req[h].name.s), <<>>)>>
                        /\ selectedPrinter = Trim(req[h].name.s)
                   ELSE req[h].sent = <<Resp404("Printer not found.")>>
  /\ \A i \in 1..Len(out.calls) :
       out.calls[i].fn = "status" =>
         /\ out.calls[i].res.status = 200
         /\ out.calls[i].res.selectedPrinter = selectedPrinter
         /\ out.calls[i].res.printers = printers

\* A request for p1, not in the cached list and found by the refresh, has been
\* answered 200 and p1 has replaced the selection of a printer since removed.
C12_Witness ==
  \E h \in Handlers :
    /\ IsSelect(h) /\ req[h].pc = "done"
    /\ req[h].name = Str("p1")
    /\ ~req[h].cached /\ req[h].refreshes = 1
    /\ req[h].selAtStart = "old"
    /\ req[h].sent = <<Resp(200, TRUE, "", "", "p1", <<>>)>>
    /\ selectedPrinter = "p1"

\* The step is loadSettings, at startup.
Loading == \E h \in Handlers : req[h].pc = "load"

\* C13 as stated: every step that changes selectedPrinter sets it to the name
\* of a printer that is in printers at the end of that step.
C13_Original ==
  [][selectedPrinter' # selectedPrinter => HasPrinter(printers', selectedPrinter')]_vars

\* C13 amended: every step that changes selectedPrinter, but for loadSettings
\* at startup, sets it to the name of a printer that is in printers at the end
\* of that step; loadSettings takes the stored selection as it is.
C13_SetKnown ==
  [][(selectedPrinter' # selectedPrinter /\ ~Loading)
       => HasPrinter(printers', selectedPrinter')]_vars

\* A selection has just been replaced, from the tray or by a select request,
\* by a printer of the list.
C13_Witness ==
  \E i \in 1..Len(out.calls) :
    /\ IsSetCall(out.calls[i])
    /\ out.calls[i].before # NoPrinter
    /\ out.calls[i].after # out.calls[i].before
    /\ out.calls[i].after = selectedPrinter
    /\ selectedPrinter \in Names(printers)

\* Handler h resumes from its enumeration in this step.
EnumReturns(h) == req[h].pc = "enum" /\ req'[h].pc # "enum"

\* C14: a refresh that completes while a printer is selected leaves the
\* selection as it is, whenever the selection was made: before the refresh
\* began or while its enumeration was in flight.  (A select request that
\* resumes from its own refresh then selects the printer it asked for, which
\* is its selection and not the refresh's.)
C14_NoOverwrite ==
  [][\A h \in Handlers :
       (EnumReturns(h) /\ selectedPrinter # NoPrinter)
         => \/ selectedPrinter' = selectedPrinter
            \/ /\ IsSelect(h)
               /\ selectedPrinter' = req[h].targetPrinter
               /\ req'[h].sent = <<Resp(200, TRUE, "", "", req[h].targetPrinter, <<>>)>>]_vars

\* A POST /printers/refresh that began with nothing selected has completed
\* with the list p1, p2 (p2 the default) after p1 was selected in between, and
\* p1 is still selected.
C14_Witness ==
  \E h \in Handlers :
    /\ req[h].kind = "refresh" /\ req[h].pc = "done"
    /\ req[h].selAtStart = NoPrinter
    /\ JustRefreshed(h)
    /\ out.calls[1].ok
    /\ out.calls[1].list = <<Printer("p1", FALSE), Printer("p2", TRUE)>>
    /\ out.calls[1].selBefore = "p1"
    /\ selectedPrinter = "p1"

\* Some handler resumes from its enumeration in this step.
SomeEnumReturns == \E h \in Handlers : EnumReturns(h)

\* C15: with refreshes overlapping, every enumeration that completes with
\* success makes printers exactly the list it returned, one that fails leaves
\* printers as it is, and no other step changes printers: printers is always
\* one whole enumeration result, that of the last success.
C15_LastWriter ==
  [][/\ SomeEnumReturns =>
          /\ Len(out'.calls) >= 1
          /\ IsRefreshCall(out'.calls[1])
          /\ printers' = (IF out'.calls[1].ok THEN out'.calls[1].list ELSE printers)
     /\ ~SomeEnumReturns => printers' = printers
     /\ printers' \in OSLists]_vars

\* A POST /printers/refresh began before any printer had been found, another
\* refresh completed with printers meanwhile (one is selected), and the first
\* has now completed with the empty list: printers is empty.
C15_Witness ==
  \E h \in Handlers :
    /\ req[h].kind = "refresh" /\ req[h].pc = "done"
    /\ req[h].selAtStart = NoPrinter
    /\ JustRefreshed(h)
    /\ out.calls[1].ok
    /\ out.calls[1].list = <<>>
    /\ out.calls[1].selBefore # NoPrinter
    /\ printers = <<>>

\* The request of record r holds a temporary directory: mkdtemp has made it
\* and the request's cleanup has not yet settled.
Holds(r) == r.kind = "print" /\ r.pc \in {"write", "print", "cleanup"}

\* C16: with POST /print requests interleaved, the requests that hold a
\* directory hold different ones; a directory is there for as long as its
\* request holds it; a directory goes only in the step in which the cleanup of
\* the request that made it settles, and no other goes with it; and the file
\* was in place at every call of print.
C16_OwnDirectory ==
  [][/\ \A h, k \in Handlers :
          (h # k /\ Holds(req'[h]) /\ Holds(req'[k])) => req'[h].dir # req'[k].dir
     /\ \A h \in Handlers : Holds(req'[h]) => tmp'[req'[h].dir] # "none"
     /\ \A d \in DirNames :
          (tmp[d] # "none" /\ tmp'[d] = "none") =>
            /\ \E h \in Handlers :
                 /\ req[h].pc = "cleanup" /\ req[h].dir = d
                 /\ req'[h].pc # "cleanup"
            /\ \A e \in DirNames \ {d} : tmp'[e] = tmp[e]
     /\ \A h \in Handlers : \A i \in 1..Len(req'[h].prints) :
          req'[h].prints[i].exists]_vars

\* One request's cleanup has removed its directory while another's print is
\* pending on its own file, which is still there.
C16_Witness ==
  \E h, k \in Handlers :
    /\ h # k /\ IsPrint(h) /\ IsPrint(k)
    /\ req[h].pc = "print" /\ req[h].prints[1].exists
    /\ tmp[req[h].dir] = "file"
    /\ req[k].pc = "done" /\ req[k].cleanups = 1 /\ req[k].prints # <<>>
    /\ req[k].dir # req[h].dir
    /\ tmp[req[k].dir] = "none"

\* C17: a POST /print sends at most one response and at most one notification;
\* once it has answered 200 it sends no 500 and no "Print failed" notification,
\* also when the cleanup that follows the 200 fails.
C17_OneOutcome ==
  \A h \in Handlers :
    IsPrint(h) =>
      /\ Len(req[h].sent) <= 1
      /\ Len(req[h].notes) <= 1
      /\ (req[h].sent # <<>> /\ req[h].sent[1].status = 200) =>
           /\ \A i \in 1..Len(req[h].sent) : req[h].sent[i].status # 500
           /\ \A i \in 1..Len(req[h].notes) :
                ~StartsWith(req[h].notes[i], "Print failed")

\* A request was answered 200 and the removal of its directory then failed: the
\* handler has ended on that error with the 200 its only response.
C17_Witness ==
  \E h \in Handlers :
    /\ IsPrint(h) /\ req[h].pc = "rejected"
    /\ req[h].failure = RmError
    /\ req[h].cleanups = 1
    /\ req[h].sent = <<Resp(200, TRUE, "", req[h].targetPrinter, "", <<>>)>>
    /\ Len(req[h].notes) = 1
    /\ StartsWith(req[h].notes[1], "Sent document to ")

\* Handler h, serving a select or a print request, takes a step that is not
\* its last or that ends the request with a 400 or a 404.
ErrorPath(h) ==
  /\ req'[h] # req[h]
  /\ req'[h].kind \in {"select", "print"}
  /\ \/ req'[h].pc = "enum"
     \/ /\ req'[h].pc = "done"
        /\ Len(req'[h].sent) = 1
        /\ req'[h].sent[1].status \in {400, 404}

\* C18 as stated: no step of a select or print request that is answered 400 or
\* 404 changes selectedPrinter.
C18_Original ==
  [][\A h \in Handlers : ErrorPath(h) => selectedPrinter' = selectedPrinter]_vars

\* C18 amended: no step of a select or print request that is answered 400 or
\* 404 changes selectedPrinter, but for this: when nothing is selected and the
\* refresh the request triggered returns a list that is not empty, the refresh
\* selects the list's default printer, or its first, before the 404 is sent.
C18_ErrorFrame ==
  [][\A h \in Handlers :
       ErrorPath(h) =>
         \/ selectedPrinter' = selectedPrinter
         \/ /\ selectedPrinter = NoPrinter
            /\ req[h].pc = "enum"
            /\ printers' # <<>>
            /\ selectedPrinter' = DefaultOrFirst(printers')]_vars

\* A print request for a printer that does not exist, made with nothing
\* selected, has been answered 404 after its refresh, which selected p2.
C18_Witness ==
  \E h \in Handlers :
    /\ IsPrint(h) /\ req[h].pc = "done"
    /\ req[h].printerName = Str("zz")
    /\ req[h].sent = <<Resp404("Selected printer is not available.")>>
    /\ JustRefreshed(h)
    /\ out.calls[1].selBefore = NoPrinter
    /\ out.calls[1].selAfter = "p2"
    /\ selectedPrinter = "p2"

\* C19 as stated: once a POST /print has finished, the temporary directory
\* that mkdtemp made for it, if any, is no longer there.
C19_Removed ==
  \A h \in Handlers :
    (IsPrint(h) /\ Finished(h) /\ req[h].mkdirs >= 1) => tmp[req[h].dir] = "none"

\* C20 as stated: whenever a POST /print calls print, its target printer is in
\* printers at that moment.
C20_ListedAtPrint ==
  [][\A h \in Handlers :
       (req[h].pc = "write" /\ req'[h].pc = "print")
         => HasPrinter(printers', req'[h].targetPrinter)]_vars

====
